---- MODULE Spec2Model ----
(***************************************************************************)
(* A model of the vikingchess engine (src/src/board.rs and the modules it  *)
(* uses).  A Mask (a u128) is the set of the positions of its one-bits; a   *)
(* u64 Zobrist key or hash is the set of the positions of its one-bits as   *)
(* well, so that |, &, ! and ^ are set union, intersection, complement     *)
(* within the word and symmetric difference.                                *)
(***************************************************************************)
EXTENDS Integers, Sequences, FiniteSets, TLC

\* ---------------------------------------------------------------- bounds
\* accepted move_piece calls per behaviour
MaxMoves == 2
\* the largest row and column, and the largest index, that a caller passes to a
\* Square constructor
MaxCoord == 10
MaxIndex == 90

\* ------------------------------------------------------------- constants
BOARD_LENGTH == 9
TOTAL_SQUARES == BOARD_LENGTH * BOARD_LENGTH
MaskBits == 128
HashBits == 64

Bits128 == 0 .. (MaskBits - 1)
Bits64 == 0 .. (HashBits - 1)

\* ------------------------------------------------------------------ Mask
MaskOr(a, b) == a \cup b
MaskAnd(a, b) == a \cap b
MaskNot(a) == Bits128 \ a
\* m << n on a u128: bits shifted past the top are lost
MaskShl(m, n) == {b + n : b \in {x \in m : x + n < MaskBits}}

\* ----------------------------------------------------------------- Piece
King == "King"
Defender == "Defender"
Attacker == "Attacker"
Piece == {King, Defender, Attacker}
PieceIndex(p) == CASE p = King -> 0 [] p = Defender -> 1 [] p = Attacker -> 2
\* Piece::PIECES mapped through Piece::from, in array order
PIECES == <<Attacker, Defender, King>>
Opposite(p) == CASE p = King -> Attacker [] p = Defender -> Attacker [] p = Attacker -> Defender

\* ---------------------------------------------------------------- Square
Sq(r, c) == [row |-> r, col |-> c]
Squares == {Sq(r, c) : r \in 0 .. (BOARD_LENGTH - 1), c \in 0 .. (BOARD_LENGTH - 1)}
SquareIndex(s) == s.row * BOARD_LENGTH + s.col
SquareMask(s) == MaskShl({0}, SquareIndex(s))
\* Square::new: the fields are stored as given
SquareNew(row, col) == [ok |-> TRUE, sq |-> Sq(row, col)]
\* TryFrom<(u8, u8)>: value.0 is the column, value.1 the row
SquareTryFromPair(c, r) ==
    IF c >= BOARD_LENGTH \/ r >= BOARD_LENGTH
    THEN [ok |-> FALSE, sq |-> Sq(0, 0)]
    ELSE [ok |-> TRUE, sq |-> Sq(r, c)]
\* TryFrom<usize>
SquareTryFromIndex(i) ==
    IF i >= TOTAL_SQUARES
    THEN [ok |-> FALSE, sq |-> Sq(0, 0)]
    ELSE [ok |-> TRUE, sq |-> Sq(i \div BOARD_LENGTH, i % BOARD_LENGTH)]
\* Square at the signed delta encoded by k over a 5x5 window centred on s
SquareTryFromOffset(s, k) ==
    LET r == s.row + (k \div 5) - 2
        c == s.col + (k % 5) - 2
    IN IF r < 0 \/ r >= BOARD_LENGTH \/ c < 0 \/ c >= BOARD_LENGTH
       THEN [ok |-> FALSE, sq |-> Sq(0, 0)]
       ELSE [ok |-> TRUE, sq |-> Sq(r, c)]
\* adjacent_mask with the column of the neighbour left unchecked
SquareAdjacentMask_ColumnUnchecked(s) ==
    LET at(k) == <<(k \div 3) - 1 + s.row, (k % 3) - 1 + s.col>>
        kept == {k \in {1, 3, 5, 7} : at(k)[1] \in 0 .. (BOARD_LENGTH - 1)}
    IN UNION {MaskShl({0}, at(k)[1] * BOARD_LENGTH + at(k)[2]) : k \in kept}
\* adjacent_mask: k over [1, 3, 5, 7] of a 3x3 window centred on s, the
\* squares off the board filtered out, the rest folded with |
SquareAdjacentMask(s) ==
    LET at(k) == <<(k \div 3) - 1 + s.row, (k % 3) - 1 + s.col>>
        kept == {k \in {1, 3, 5, 7} : /\ at(k)[1] \in 0 .. (BOARD_LENGTH - 1)
                                      /\ at(k)[2] \in 0 .. (BOARD_LENGTH - 1)}
    IN UNION {MaskShl({0}, at(k)[1] * BOARD_LENGTH + at(k)[2]) : k \in kept}
\* interjacent_mask: k over [2, 10, 14, 22] of a 5x5 window centred on s
SquareInterjacentMask(s) ==
    LET at(k) == <<(k \div 5) - 2 + s.row, (k % 5) - 2 + s.col>>
        kept == {k \in {2, 10, 14, 22} : /\ at(k)[1] \in 0 .. (BOARD_LENGTH - 1)
                                         /\ at(k)[2] \in 0 .. (BOARD_LENGTH - 1)}
    IN UNION {MaskShl({0}, at(k)[1] * BOARD_LENGTH + at(k)[2]) : k \in kept}

\* the four corner squares and the centre square
CORNER_MASK ==
    {SquareIndex(Sq(0, 0)), SquareIndex(Sq(0, BOARD_LENGTH - 1)),
     SquareIndex(Sq(BOARD_LENGTH - 1, 0)), SquareIndex(Sq(BOARD_LENGTH - 1, BOARD_LENGTH - 1))}
THRONE_MASK == {SquareIndex(Sq(BOARD_LENGTH \div 2, BOARD_LENGTH \div 2))}

\* -------------------------------------------------------------- Bitboard
EmptyBitboard == [p \in Piece |-> {}]
\* fold of | over PIECES
BitboardAll(bb) == MaskOr(MaskOr(MaskOr({}, bb[PIECES[1]]), bb[PIECES[2]]), bb[PIECES[3]])

\* 0x1008040201008040201 and 0x1ff as bit sets
ColPattern == {BOARD_LENGTH * k : k \in 0 .. 8}
RowPattern == 0 .. 8
BitboardMoves(square) ==
    LET square_col_mask == MaskShl(ColPattern, square.col)
        square_row_mask == MaskShl(RowPattern, 9 * square.row)
    IN MaskAnd(MaskOr(square_col_mask, square_row_mask), MaskNot(SquareMask(square)))

\* A variant of RankLoop that takes the square of the first blocker as well.
RECURSIVE RankLoop_TakesBlocker(_, _, _, _)
RankLoop_TakesBlocker(file, r, step, blockers) ==
    IF r < 0 \/ r > 8 THEN {}
    ELSE LET current_square == SquareTryFromPair(file, r).sq
         IN IF MaskAnd(blockers, SquareMask(current_square)) # {}
            THEN SquareMask(current_square)
            ELSE MaskOr(SquareMask(current_square),
                        RankLoop_TakesBlocker(file, r + step, step, blockers))
\* One loop of Bitboard::legal_moves: visit (file, r) for r = from, from + step, ...
\* while it stays within [0, 9), stopping at the first blocker.
RECURSIVE RankLoop(_, _, _, _)
RankLoop(file, r, step, blockers) ==
    IF r < 0 \/ r > 8 THEN {}
    ELSE LET current_square == SquareTryFromPair(file, r).sq
         IN IF MaskAnd(blockers, SquareMask(current_square)) # {}
            THEN {}
            ELSE MaskOr(SquareMask(current_square), RankLoop(file, r + step, step, blockers))
\* A variant of FileLoop that skips a blocker instead of stopping at it.
RECURSIVE FileLoop_SkipsBlockers(_, _, _, _)
FileLoop_SkipsBlockers(f, rank, step, blockers) ==
    IF f < 0 \/ f > 8 THEN {}
    ELSE LET current_square == SquareTryFromPair(f, rank).sq
         IN IF MaskAnd(blockers, SquareMask(current_square)) # {}
            THEN FileLoop_SkipsBlockers(f + step, rank, step, blockers)
            ELSE MaskOr(SquareMask(current_square),
                        FileLoop_SkipsBlockers(f + step, rank, step, blockers))
RECURSIVE FileLoop(_, _, _, _)
FileLoop(f, rank, step, blockers) ==
    IF f < 0 \/ f > 8 THEN {}
    ELSE LET current_square == SquareTryFromPair(f, rank).sq
         IN IF MaskAnd(blockers, SquareMask(current_square)) # {}
            THEN {}
            ELSE MaskOr(SquareMask(current_square), FileLoop(f + step, rank, step, blockers))
LegalMoves(square, blockers) ==
    LET rank == square.row
        file == square.col
    IN MaskOr(MaskOr(RankLoop(file, rank + 1, 1, blockers),
                     IF rank > 0 THEN RankLoop(file, rank - 1, -1, blockers) ELSE {}),
              MaskOr(FileLoop(file + 1, rank, 1, blockers),
                     IF file > 0 THEN FileLoop(file - 1, rank, -1, blockers) ELSE {}))

\* Bitboard::from_fen over a sequence of characters.  col and row are u8.
Digits == <<"0", "1", "2", "3", "4", "5", "6", "7", "8", "9">>
IsDigit(ch) == \E d \in 1 .. 10 : Digits[d] = ch
ToDigit(ch) == (CHOOSE d \in 1 .. 10 : Digits[d] = ch) - 1
\* A variant of PieceFromChar that takes A for the Defender and D for the Attacker.
PieceFromChar_SidesExchanged(ch) ==
    CASE ch = "A" -> Defender [] ch = "D" -> Attacker [] ch = "K" -> King
PieceFromChar(ch) == CASE ch = "A" -> Attacker [] ch = "D" -> Defender [] ch = "K" -> King
RECURSIVE FenLoop(_, _, _, _, _)
FenLoop(str, i, col, row, bb) ==
    IF i > Len(str) THEN [kind |-> "ok", bitboard |-> bb]
    ELSE LET ch == str[i]
         IN IF ch \in {"A", "D", "K"}
            THEN LET sq == SquareTryFromPair(col, row)
                 IN IF ~sq.ok THEN [kind |-> "err", bitboard |-> bb]
                    ELSE FenLoop(str, i + 1, col + 1, row,
                                 [bb EXCEPT ![PieceFromChar(ch)] = MaskOr(@, SquareMask(sq.sq))])
            ELSE IF IsDigit(ch)
            THEN IF col + ToDigit(ch) > 255
                 THEN [kind |-> "overflow", bitboard |-> bb]
                 ELSE FenLoop(str, i + 1, col + ToDigit(ch), row, bb)
            ELSE IF (ch = "/" /\ col % BOARD_LENGTH # 0) \/ col > BOARD_LENGTH
            THEN [kind |-> "err", bitboard |-> bb]
            ELSE IF ch = "/"
            THEN IF row + 1 > 255
                 THEN [kind |-> "overflow", bitboard |-> bb]
                 ELSE FenLoop(str, i + 1, 0, row + 1, bb)
            ELSE FenLoop(str, i + 1, col, row, bb)
BitboardFromFen(str) == FenLoop(str, 1, 0, 0, EmptyBitboard)

\* BitboardIter: the (piece, square) pairs in index order; at a square the first
\* piece of PIECES whose mask has the bit.
PieceAt(bb, square) ==
    LET mask == SquareMask(square)
    IN IF MaskAnd(bb[PIECES[1]], mask) # {} THEN <<PIECES[1]>>
       ELSE IF MaskAnd(bb[PIECES[2]], mask) # {} THEN <<PIECES[2]>>
       ELSE IF MaskAnd(bb[PIECES[3]], mask) # {} THEN <<PIECES[3]>>
       ELSE <<>>
RECURSIVE BitboardIter(_, _)
BitboardIter(bb, counter) ==
    LET sq == SquareTryFromIndex(counter)
        piece == PieceAt(bb, sq.sq)
    IN IF ~sq.ok THEN <<>>
       ELSE IF piece = <<>> THEN BitboardIter(bb, counter + 1)
       ELSE <<<<piece[1], sq.sq>>>> \o BitboardIter(bb, counter + 1)

\* ---------------------------------------------------------- ZobristTable
TABLE_LENGTH == TOTAL_SQUARES * 3
\* ZobristTable::new fills the table from the random generator; draw names one
\* outcome of the TABLE_LENGTH calls of next_u64.
\* The i-th value is the byte ((i + 1) * draw) % 251 repeated over the 8 bytes of
\* the u64: the values of one outcome differ where the generator did not repeat.
ZobristTableNew(draw) ==
    [i \in 0 .. (TABLE_LENGTH - 1) |->
        {b \in Bits64 : ((((i + 1) * draw) % 251) \div (2 ^ (b % 8))) % 2 = 1}]
\* A table never changes after ZobristTable::new returns it: the board's
\* zobrist_table field is modelled by the number of its draw.
\* the outcomes of ZobristTable::new that a board is built with
Draws == {1}
\* the outcome in which every call of next_u64 returns 0
ZeroDraw == 251
\* the outcomes of the generator that ZobristTable::new is run with
RngDraws == 1 .. ZeroDraw
Tables == [draw \in Draws \cup {ZeroDraw} |-> ZobristTableNew(draw)]
TableOf(draw) == Tables[draw]
\* Index<(Piece, Square)>
ZobristIndex(piece, square) ==
    PieceIndex(piece) * TOTAL_SQUARES + (square.row * BOARD_LENGTH + square.col)
Xor(a, b) == (a \ b) \cup (b \ a)

\* ---------------------------------------------------------------- Action
NoAction == [none |-> TRUE]
Act(p, f, t) == [piece |-> p, from |-> f, to |-> t]
ActionValid(action, bb) == MaskAnd(bb[action.piece], SquareMask(action.from)) # {}
ActionTurnValid(action, turn_mask) == MaskAnd(SquareMask(action.from), turn_mask) # {}

\* ----------------------------------------------------------------- Board
RECURSIVE XorKeys(_, _, _)
XorKeys(pairs, table, hash) ==
    IF pairs = <<>> THEN hash
    ELSE XorKeys(Tail(pairs), table, Xor(hash, table[ZobristIndex(pairs[1][1], pairs[1][2])]))
CalculateHash(bb, table) == XorKeys(BitboardIter(bb, 0), table, {})

\* A variant of TurnMask that gives the King to the Attacker's turn.
TurnMask_KingWithAttacker(bb, turn) ==
    CASE turn = Attacker -> MaskOr(bb[Attacker], bb[King])
      [] turn = Defender -> bb[Defender]
TurnMask(bb, turn) ==
    CASE turn = Attacker -> bb[Attacker]
      [] turn = Defender -> MaskOr(bb[Defender], bb[King])

\* A variant of BoardMoves that passes no blockers to the ray cast.
BoardMoves_NoBlockers(bb, square) == LegalMoves(square, {})
\* Board::moves with magic_table = None
BoardMoves(bb, square) ==
    LET blockers == MaskAnd(BitboardMoves(square), BitboardAll(bb))
    IN LegalMoves(square, blockers)

\* MagicTable::SHIFTS, by square index
SHIFTS ==
    <<14, 13, 13, 13, 13, 13, 13, 13, 14,
      13, 12, 12, 12, 12, 12, 12, 12, 13,
      13, 12, 12, 12, 12, 12, 12, 12, 13,
      13, 12, 12, 12, 12, 12, 12, 12, 13,
      13, 12, 12, 12, 12, 12, 12, 12, 13,
      13, 12, 12, 12, 12, 12, 12, 12, 13,
      13, 12, 12, 12, 12, 12, 12, 12, 13,
      13, 12, 12, 12, 12, 12, 12, 12, 13,
      14, 13, 13, 13, 13, 13, 13, 13, 14>>
\* Bitboard::blockers: the squares of moves(square) whose occupancy decides the
\* index, that is all but the outermost square of each ray; their number is
\* SHIFTS[square].
BitboardBlockers(square) ==
    {i \in BitboardMoves(square) :
        LET t == SquareTryFromIndex(i).sq
        IN /\ (t.row = square.row /\ t.col < square.col) => t.col # 0
           /\ (t.row = square.row /\ t.col > square.col) => t.col # BOARD_LENGTH - 1
           /\ (t.col = square.col /\ t.row < square.row) => t.row # 0
           /\ (t.col = square.col /\ t.row > square.row) => t.row # BOARD_LENGTH - 1}
\* magic_table.moves[square_index][&index]: the multiplier and the shift send each
\* pattern of relevant blockers to its own index, and the entry there is the
\* destination mask precomputed for that pattern.
MagicLookup(square, relevant) == LegalMoves(square, relevant)
\* A variant of BoardMovesMagic that does not take the occupied squares out of
\* the entry it looked up.
BoardMovesMagic_KeepsOccupied(bb, square) ==
    LET blockers == MaskAnd(MaskAnd(BitboardMoves(square), BitboardAll(bb)),
                            BitboardBlockers(square))
    IN MagicLookup(square, blockers)
\* Board::moves with magic_table = Some(..)
BoardMovesMagic(bb, square) ==
    LET blockers == MaskAnd(MaskAnd(BitboardMoves(square), BitboardAll(bb)),
                            BitboardBlockers(square))
    IN MaskAnd(MagicLookup(square, blockers), MaskNot(BitboardAll(bb)))

\* A variant of RemovePieceOn that clears the bit and leaves the hash alone.
RemovePieceOn_KeepsHash(b, table, piece, square) ==
    [bitboard |-> [b.bitboard EXCEPT ![piece] = MaskAnd(@, MaskNot(SquareMask(square)))],
     state |-> b.state]
\* remove_piece and add_piece on the pair b = [bitboard, state]
RemovePieceOn(b, table, piece, square) ==
    [bitboard |-> [b.bitboard EXCEPT ![piece] = MaskAnd(@, MaskNot(SquareMask(square)))],
     state |-> [b.state EXCEPT !.zobrist_hash = Xor(@, table[ZobristIndex(piece, square)])]]
AddPieceOn(b, table, piece, square) ==
    [bitboard |-> [b.bitboard EXCEPT ![piece] = MaskOr(@, SquareMask(square))],
     state |-> [b.state EXCEPT !.zobrist_hash = Xor(@, table[ZobristIndex(piece, square)])]]

ErrTurn == "does not have the current turn yet."
ErrCorner == "Pieces can't move to the corner besides the king."
ErrThrone == "No one can go to the throne."
ErrMove == "Invalid move."
Errors == {ErrTurn, ErrCorner, ErrThrone, ErrMove}
Panic == "panic"
Ok == "Ok"

\* move_piece, lines 105-111: the three rule checks on the action
TurnRejected(b, action) == ~ActionTurnValid(action, TurnMask(b.bitboard, b.state.turn))
\* A variant of CornerRejected that lets every piece onto a corner.
CornerRejected_Never(action) == FALSE
CornerRejected(action) ==
    action.piece # King /\ MaskAnd(SquareMask(action.to), CORNER_MASK) # {}
\* A variant of ThroneRejected that lets every piece onto the throne.
ThroneRejected_Never(action) == FALSE
ThroneRejected(action) == MaskAnd(SquareMask(action.to), THRONE_MASK) # {}
\* move_piece, lines 113-116: !moves & action.to.mask() > Mask(0)
MoveRejectedBy(moves, action) == MaskAnd(MaskNot(moves), SquareMask(action.to)) # {}

\* A variant of MovePieceChecks that tests the turn before the presence of the piece.
MovePieceChecks_TurnFirst(b, action) ==
    IF TurnRejected(b, action) THEN ErrTurn
    ELSE IF ~ActionValid(action, b.bitboard) THEN Panic
    ELSE IF CornerRejected(action) THEN ErrCorner
    ELSE IF ThroneRejected(action) THEN ErrThrone
    ELSE IF MoveRejectedBy(BoardMoves(b.bitboard, action.from), action) THEN ErrMove
    ELSE Ok
\* move_piece, lines 101-116: what the call returns (or that it panics)
MovePieceChecks(b, action) ==
    IF ~ActionValid(action, b.bitboard) THEN Panic
    ELSE IF TurnRejected(b, action) THEN ErrTurn
    ELSE IF CornerRejected(action) THEN ErrCorner
    ELSE IF ThroneRejected(action) THEN ErrThrone
    ELSE IF MoveRejectedBy(BoardMoves(b.bitboard, action.from), action) THEN ErrMove
    ELSE Ok
\* A variant of MovePieceApply that also flips the side to move.
MovePieceApply_FlipsTurn(b, table, action) ==
    LET removed == RemovePieceOn(b, table, action.piece, action.from)
        added == AddPieceOn(removed, table, action.piece, action.to)
    IN [bitboard |-> added.bitboard,
        state |-> [added.state EXCEPT !.action = action,
                                      !.turn = IF @ = Attacker THEN Defender ELSE Attacker]]
\* A variant of MovePieceApply that leaves the piece on its from square as well.
MovePieceApply_KeepsFrom(b, table, action) ==
    LET added == AddPieceOn(b, table, action.piece, action.to)
    IN [bitboard |-> added.bitboard, state |-> [added.state EXCEPT !.action = action]]
\* move_piece, lines 118-121: the mutation of an accepted move
MovePieceApply(b, table, action) ==
    LET removed == RemovePieceOn(b, table, action.piece, action.from)
        added == AddPieceOn(removed, table, action.piece, action.to)
    IN [bitboard |-> added.bitboard, state |-> [added.state EXCEPT !.action = action]]

\* A variant of MovePieceOn that moves the piece before it tests the destination.
MovePieceOn_ApplyFirst(b, table, action) ==
    LET checked == MovePieceChecks(b, action)
        applied == MovePieceApply(b, table, action)
    IN IF checked \in {Ok, ErrMove}
       THEN [result |-> checked, bitboard |-> applied.bitboard, state |-> applied.state]
       ELSE [result |-> checked, bitboard |-> b.bitboard, state |-> b.state]
\* move_piece: the returned value (or the panic) and the board it leaves
MovePieceOn(b, table, action) ==
    LET checked == MovePieceChecks(b, action)
        applied == MovePieceApply(b, table, action)
    IN IF checked = Ok
       THEN [result |-> Ok, bitboard |-> applied.bitboard, state |-> applied.state]
       ELSE [result |-> checked, bitboard |-> b.bitboard, state |-> b.state]

ToggleTurnOf(turn) ==
    CASE turn = Attacker -> Defender
      [] turn = Defender -> Attacker
\* A variant of SaveOn that overwrites the last entry.
SaveOn_Overwrites(hist, st) == [hist EXCEPT ![Len(hist)] = st]
SaveOn(hist, st) == Append(hist, st)

\* -------------------------------------------------- EliminatedPiecesIter
\* A variant of OFFSETS with the ally and the enemy offsets exchanged.
OFFSETS_Exchanged == <<<<7, 2>>, <<11, 10>>, <<13, 14>>, <<17, 22>>>>
OFFSETS == <<<<2, 7>>, <<10, 11>>, <<14, 13>>, <<22, 17>>>>
\* next(): counter is the index into OFFSETS (0-based); returns the item, if
\* any, and the counter it leaves.
RECURSIVE EliminatedNext(_, _, _)
EliminatedNext(bb, killer, counter) ==
    LET opposite == Opposite(killer[1])
        ally_mask == IF opposite = Defender THEN bb[Attacker]
                     ELSE MaskOr(bb[Defender], bb[King])
        enemy_mask == IF opposite = Defender THEN MaskOr(bb[Defender], bb[King])
                      ELSE bb[Attacker]
    IN IF ~(counter < Len(OFFSETS)) THEN [item |-> <<>>, counter |-> counter]
       ELSE LET ally_offset == OFFSETS[counter + 1][1]
                enemy_offset == OFFSETS[counter + 1][2]
                ally_pos == SquareTryFromOffset(killer[2], ally_offset)
                enemy_pos == SquareTryFromOffset(killer[2], enemy_offset)
            IN IF ~ally_pos.ok \/ ~enemy_pos.ok
               THEN EliminatedNext(bb, killer, counter + 1)
               ELSE LET is_ally_present == MaskAnd(SquareMask(ally_pos.sq), ally_mask) # {}
                        is_enemy_present == MaskAnd(SquareMask(enemy_pos.sq), enemy_mask) # {}
                        is_enemy_not_king == MaskAnd(bb[Defender], SquareMask(enemy_pos.sq)) # {}
                        enemy_piece == IF opposite = Attacker /\ ~is_enemy_not_king THEN Attacker
                                       ELSE IF opposite # Attacker /\ is_enemy_not_king THEN Defender
                                       ELSE King
                    IN IF ~is_ally_present \/ ~is_enemy_present
                       THEN EliminatedNext(bb, killer, counter + 1)
                       ELSE [item |-> <<<<enemy_piece, enemy_pos.sq>>>>, counter |-> counter + 1]
\* the sequence the iterator yields until next() returns None
RECURSIVE EliminatedFrom(_, _, _)
EliminatedFrom(bb, killer, counter) ==
    LET n == EliminatedNext(bb, killer, counter)
    IN IF n.item = <<>> THEN <<>>
       ELSE n.item \o EliminatedFrom(bb, killer, n.counter)
EliminatedPieces(bb, action) == EliminatedFrom(bb, <<action.piece, action.to>>, 0)
\* A variant of EliminatedPiecesIterOn that hands out an empty sequence when no
\* move has been applied.
EliminatedPiecesIterOn_EmptyBeforeMove(bb, st) ==
    IF st.action = NoAction THEN [result |-> Ok, items |-> <<>>]
    ELSE [result |-> Ok, items |-> EliminatedPieces(bb, st.action)]
\* eliminated_pieces_iter: the panic when state.action is None, else the
\* iterator, given by the sequence it yields
EliminatedPiecesIterOn(bb, st) ==
    IF st.action = NoAction THEN [result |-> Panic, items |-> <<>>]
    ELSE [result |-> Ok, items |-> EliminatedPieces(bb, st.action)]

\* ------------------------------------------------------- Board::from_fen
\* str.split(" "): the characters before the first space, and the token after it
RECURSIVE TakeToken(_, _)
TakeToken(str, i) ==
    IF i > Len(str) \/ str[i] = " " THEN <<>>
    ELSE <<str[i]>> \o TakeToken(str, i + 1)
BoardFromFen(str, draw) ==
    LET first == TakeToken(str, 1)
        has_second == Len(first) < Len(str)
        second == TakeToken(str, Len(first) + 2)
        parsed == BitboardFromFen(first)
        zobrist == TableOf(draw)
        initial_hash == CalculateHash(parsed.bitboard, zobrist)
    IN IF parsed.kind # "ok" THEN [kind |-> parsed.kind]
       ELSE IF ~has_second \/ second \notin {<<"B">>, <<"W">>} THEN [kind |-> Panic]
       ELSE LET st == [zobrist_hash |-> initial_hash,
                       turn |-> IF second = <<"B">> THEN Attacker ELSE Defender,
                       action |-> NoAction]
            IN [kind |-> "ok", bitboard |-> parsed.bitboard, zobrist_table |-> draw,
                state |-> st, history |-> <<st>>]

\* "3AAA3/4A4/4D4/A3D3A/AADDKDDAA/A3D3A/4D4/4A4/3AAA3 B"
STARTING_FEN ==
    <<"3", "A", "A", "A", "3", "/", "4", "A", "4", "/", "4", "D", "4", "/", "A", "3", "D",
      "3", "A", "/", "A", "A", "D", "D", "K", "D", "D", "A", "A", "/", "A", "3", "D", "3",
      "A", "/", "4", "D", "4", "/", "4", "A", "4", "/", "3", "A", "A", "A", "3", " ", "B">>
\* "9/9/9/9/9/9/9/9/9 B"
EMPTY_FEN ==
    <<"9", "/", "9", "/", "9", "/", "9", "/", "9", "/", "9", "/", "9", "/", "9", "/", "9",
      " ", "B">>
\* a King next to a corner, a Defender that can close a sandwich on an Attacker
DefenderFen ==
    <<"3", "K", "1", "D", "3", "/", "9", "/", "9", "/", "3", "D", "A", "4", "/", "9", "/",
      "9", "/", "9", "/", "9", "/", "9", " ", "W">>
\* a King off the throne beside an Attacker, a second Attacker that can close on it
AttackerFen ==
    <<"3", "D", "1", "A", "3", "/", "9", "/", "9", "/", "3", "A", "K", "4", "/", "9", "/",
      "9", "/", "9", "/", "9", "/", "9", " ", "B">>
\* the layouts a board is built from
Layouts == {STARTING_FEN, DefenderFen, AttackerFen}
\* the squares the caller names in an Action
InputSquares ==
    {Sq(0, 0), Sq(0, 3), Sq(0, 5), Sq(1, 3), Sq(3, 3), Sq(3, 4), Sq(3, 5), Sq(4, 4)}
Actions == {Act(p, f, t) : p \in Piece, f \in InputSquares, t \in InputSquares}

\* ------------------------------------------------------------ the machine
\* bitboard, zobrist_table, history, state: the fields of Board.
\* eliminated: <<>>, or <<q>> with q the pieces the caller drained from the
\*   iterator of the last accepted move and has not removed yet.
\* call, result: the action of the last move_piece call that did not return Ok
\*   and what came of it; result is Ok when there is no failure to handle.
\* nmoves: the number of accepted moves.
VARIABLES bitboard, zobrist_table, history, state, eliminated, call, result, nmoves
vars == <<bitboard, zobrist_table, history, state, eliminated, call, result, nmoves>>

Init ==
    \E str \in Layouts, draw \in Draws :
        LET b == BoardFromFen(str, draw)
        IN /\ b.kind = "ok"
           /\ bitboard = b.bitboard
           /\ zobrist_table = b.zobrist_table
           /\ state = b.state
           /\ history = b.history
           /\ eliminated = <<>>
           /\ call = NoAction
           /\ result = Ok
           /\ nmoves = 0

\* the caller has a board and no failure to handle
Running == result = Ok

\* board.move_piece(action, None)
MovePiece(action) ==
    /\ Running
    /\ nmoves < MaxMoves
    /\ LET r == MovePieceOn([bitboard |-> bitboard, state |-> state],
                            TableOf(zobrist_table), action)
       IN /\ bitboard' = r.bitboard
          /\ state' = r.state
          /\ result' = r.result
          /\ call' = IF r.result = Ok THEN NoAction ELSE action
          /\ nmoves' = IF r.result = Ok THEN nmoves + 1 ELSE nmoves
          /\ eliminated' = IF r.result = Ok THEN <<>> ELSE eliminated
    /\ UNCHANGED <<zobrist_table, history>>

\* the caller takes the Err that move_piece returned and carries on
DropError ==
    /\ result \in Errors
    /\ result' = Ok
    /\ call' = NoAction
    /\ UNCHANGED <<bitboard, zobrist_table, history, state, eliminated, nmoves>>

\* board.toggle_turn()
ToggleTurn ==
    /\ Running
    /\ state' = [state EXCEPT !.turn = ToggleTurnOf(@)]
    /\ UNCHANGED <<bitboard, zobrist_table, history, eliminated, call, result, nmoves>>

\* board.save(), at most once per accepted move
Save ==
    /\ Running
    /\ Len(history) <= nmoves
    /\ history' = SaveOn(history, state)
    /\ UNCHANGED <<bitboard, zobrist_table, state, eliminated, call, result, nmoves>>

\* board.eliminated_pieces_iter(), drained by the caller into a list
EliminatedPiecesIter ==
    /\ Running
    /\ LET r == EliminatedPiecesIterOn(bitboard, state)
       IN /\ result' = r.result
          /\ eliminated' = IF r.result = Panic THEN eliminated ELSE <<r.items>>
    /\ UNCHANGED <<bitboard, zobrist_table, history, state, call, nmoves>>

\* board.remove_piece(piece, square) for the next piece the iterator reported
RemovePiece ==
    /\ Running
    /\ eliminated # <<>>
    /\ eliminated[1] # <<>>
    /\ LET r == RemovePieceOn([bitboard |-> bitboard, state |-> state],
                              TableOf(zobrist_table), eliminated[1][1][1], eliminated[1][1][2])
       IN /\ bitboard' = r.bitboard
          /\ state' = r.state
    /\ eliminated' = <<Tail(eliminated[1])>>
    /\ UNCHANGED <<zobrist_table, history, call, result, nmoves>>

Next ==
    \/ \E action \in Actions : MovePiece(action)
    \/ DropError
    \/ ToggleTurn
    \/ Save
    \/ EliminatedPiecesIter
    \/ RemovePiece

Spec == Init /\ [][Next]_vars

\* The same machine, for a board built with any table that ZobristTable::new
\* can return, a table with repeated keys included.
InitKeys ==
    \E str \in Layouts, draw \in Draws \cup {ZeroDraw} :
        LET b == BoardFromFen(str, draw)
        IN /\ b.kind = "ok"
           /\ bitboard = b.bitboard
           /\ zobrist_table = b.zobrist_table
           /\ state = b.state
           /\ history = b.history
           /\ eliminated = <<>>
           /\ call = NoAction
           /\ result = Ok
           /\ nmoves = 0
SpecKeys == InitKeys /\ [][Next]_vars

TypeOK ==
    /\ \A p \in Piece : bitboard[p] \subseteq Bits128
    /\ state.turn \in {Attacker, Defender}
    /\ state.zobrist_hash \subseteq Bits64
    /\ result \in {Ok, Panic} \cup Errors

\* ------------------------------------------- single calls of the library
\* A second machine over the same variables: the caller makes one call of one
\* function.  call is the function and its arguments, result is Pending before
\* the call and Returned(v) after it, v being the value returned, "err" for an
\* Err and Panic for a panic; a call that builds a board or a table leaves it in
\* the board's variables.
Pending == [pending |-> TRUE]
Returned(v) == [value |-> v]
FnZobristNew == "ZobristTable::new"
NoState == [zobrist_hash |-> {}, turn |-> Attacker, action |-> NoAction]
FnFromFen == "Board::from_fen"
\* the rows of STARTING_FEN and of EMPTY_FEN
StartRows ==
    <<<<"3", "A", "A", "A", "3">>, <<"4", "A", "4">>, <<"4", "D", "4">>,
      <<"A", "3", "D", "3", "A">>, <<"A", "A", "D", "D", "K", "D", "D", "A", "A">>,
      <<"A", "3", "D", "3", "A">>, <<"4", "D", "4">>, <<"4", "A", "4">>,
      <<"3", "A", "A", "A", "3">>>>
EmptyRows == [k \in 1 .. BOARD_LENGTH |-> <<"9">>]
\* rows that a caller may put in place of one row of a layout: empty, short,
\* long, with a piece past the last column, with a character that is no piece
RowVariants ==
    {<<>>, <<"8">>, <<"9">>, <<"9", "1">>, <<"9", "9">>, <<"K", "8">>, <<"K", "9">>,
     <<"9", "K">>, <<"4", "D", "3">>, <<"x", "9">>}
\* what follows the rows: the separator and the side to move, or less
Tails == {<<" ", "B">>, <<" ", "W">>, <<>>, <<" ">>, <<" ", "X">>, <<" ", "b">>}
RECURSIVE JoinRows(_, _)
JoinRows(rows, k) ==
    IF k > Len(rows) THEN <<>>
    ELSE IF k = Len(rows) THEN rows[k]
    ELSE rows[k] \o <<"/">> \o JoinRows(rows, k + 1)
\* the string that a from_fen call is given
FenString(c) == JoinRows(c.rows, 1) \o c.tail
FenCalls ==
    {[fn |-> FnFromFen, rows |-> [base EXCEPT ![k] = v], tail |-> tail] :
        base \in {StartRows, EmptyRows}, k \in 1 .. BOARD_LENGTH,
        v \in RowVariants, tail \in Tails}
    \cup {[fn |-> FnFromFen, rows |-> StartRows, tail |-> tail] : tail \in Tails}
FnLegalMoves == "Bitboard::legal_moves"
FnBoardMoves == "Board::moves"
\* a square off the row and the column of s
OffCross(s) == Sq((s.row + 1) % BOARD_LENGTH, (s.col + 1) % BOARD_LENGTH)
\* the masks given as blockers or as occupancy with square s: at most two
\* squares, of which one at least on the row or the column of s
MasksAround(s) ==
    {{}} \cup {{x, y} : x \in BitboardMoves(s),
                       y \in BitboardMoves(s) \cup {SquareIndex(s), SquareIndex(OffCross(s))}}
MovesCallsOf(s) ==
    {[fn |-> FnLegalMoves, square |-> s, blockers |-> m] : m \in MasksAround(s)}
    \cup {[fn |-> FnBoardMoves, square |-> s, occupancy |-> m \cup {SquareIndex(s)},
           magic |-> magic] : m \in MasksAround(s), magic \in BOOLEAN}
FnSquareNew == "Square::new"
FnSquareFromPair == "Square::try_from((u8, u8))"
FnSquareFromIndex == "Square::try_from(usize)"
SquareCalls ==
    {[fn |-> FnSquareNew, row |-> r, col |-> c] : r \in 0 .. MaxCoord, c \in 0 .. MaxCoord}
    \cup {[fn |-> FnSquareFromPair, col |-> c, row |-> r] :
            c \in 0 .. MaxCoord, r \in 0 .. MaxCoord}
    \cup {[fn |-> FnSquareFromIndex, index |-> i] : i \in 0 .. MaxIndex}
FnMaskNot == "Mask::not"
FnMaskOr == "Mask::bitor"
FnMaskAnd == "Mask::bitand"
\* masks the engine holds: empty, one square, the rays of a square, the board
MaskOperands ==
    {{}, SquareMask(Sq(0, 0)), SquareMask(Sq(8, 8)), BitboardMoves(Sq(4, 4)),
     0 .. (TOTAL_SQUARES - 1)}
MaskCalls ==
    {[fn |-> FnMaskNot, a |-> a] : a \in MaskOperands}
    \cup {[fn |-> f, a |-> a, b |-> b] :
            f \in {FnMaskOr, FnMaskAnd}, a \in MaskOperands, b \in MaskOperands}
FnAdjacentMask == "Square::adjacent_mask"
FnInterjacentMask == "Square::interjacent_mask"
NeighbourCalls ==
    {[fn |-> f, square |-> s] : f \in {FnAdjacentMask, FnInterjacentMask}, s \in Squares}
InitCalls ==
    /\ \/ call = [fn |-> FnZobristNew]
       \/ call \in FenCalls
       \/ \E s \in Squares : call \in MovesCallsOf(s)
       \/ call \in SquareCalls
       \/ call \in MaskCalls
       \/ call \in NeighbourCalls
    /\ result = Pending
    /\ bitboard = EmptyBitboard
    /\ zobrist_table = 0
    /\ state = NoState
    /\ history = <<>>
    /\ eliminated = <<>>
    /\ nmoves = 0
\* ZobristTable::new(): the table is the outcome of the generator
CallZobristNew ==
    /\ result = Pending /\ call.fn = FnZobristNew
    /\ \E draw \in RngDraws : zobrist_table' = draw
    /\ result' = Returned(Ok)
    /\ UNCHANGED <<bitboard, history, state, eliminated, call, nmoves>>
\* Board::from_fen(str): the board it returns, the Err, or the panic
CallFromFen ==
    /\ result = Pending /\ call.fn = FnFromFen
    /\ \E draw \in Draws :
          LET b == BoardFromFen(FenString(call), draw)
          IN /\ result' = Returned(b.kind)
             /\ IF b.kind = "ok"
                THEN /\ bitboard' = b.bitboard
                     /\ zobrist_table' = b.zobrist_table
                     /\ state' = b.state
                     /\ history' = b.history
                ELSE UNCHANGED <<bitboard, zobrist_table, state, history>>
    /\ UNCHANGED <<eliminated, call, nmoves>>
\* Bitboard::legal_moves(square, blockers)
CallLegalMoves ==
    /\ result = Pending /\ call.fn = FnLegalMoves
    /\ result' = Returned(LegalMoves(call.square, call.blockers))
    /\ UNCHANGED <<bitboard, zobrist_table, history, state, eliminated, call, nmoves>>
\* board.moves(square, magic_table) on a board whose pieces stand on occupancy
CallBoardMoves ==
    /\ result = Pending /\ call.fn = FnBoardMoves
    /\ LET bb == [EmptyBitboard EXCEPT ![Attacker] = call.occupancy]
       IN /\ bitboard' = bb
          /\ result' = Returned(IF call.magic THEN BoardMovesMagic(bb, call.square)
                                 ELSE BoardMoves(bb, call.square))
    /\ UNCHANGED <<zobrist_table, history, state, eliminated, call, nmoves>>
\* a Square constructor, then index() and mask() of the square it returned
CallSquare ==
    /\ result = Pending /\ call.fn \in {FnSquareNew, FnSquareFromPair, FnSquareFromIndex}
    /\ LET made == CASE call.fn = FnSquareNew -> SquareNew(call.row, call.col)
                     [] call.fn = FnSquareFromPair -> SquareTryFromPair(call.col, call.row)
                     [] call.fn = FnSquareFromIndex -> SquareTryFromIndex(call.index)
       IN result' = IF made.ok
                    THEN Returned([ok |-> TRUE, sq |-> made.sq, index |-> SquareIndex(made.sq),
                                   mask |-> SquareMask(made.sq)])
                    ELSE Returned([ok |-> FALSE])
    /\ UNCHANGED <<bitboard, zobrist_table, history, state, eliminated, call, nmoves>>
\* !a, a | b, a & b
CallMask ==
    /\ result = Pending /\ call.fn \in {FnMaskNot, FnMaskOr, FnMaskAnd}
    /\ result' = Returned(CASE call.fn = FnMaskNot -> MaskNot(call.a)
                             [] call.fn = FnMaskOr -> MaskOr(call.a, call.b)
                             [] call.fn = FnMaskAnd -> MaskAnd(call.a, call.b))
    /\ UNCHANGED <<bitboard, zobrist_table, history, state, eliminated, call, nmoves>>
\* square.adjacent_mask(), square.interjacent_mask()
CallNeighbourMask ==
    /\ result = Pending /\ call.fn \in {FnAdjacentMask, FnInterjacentMask}
    /\ result' = Returned(IF call.fn = FnAdjacentMask
                           THEN SquareAdjacentMask(call.square)
                           ELSE SquareInterjacentMask(call.square))
    /\ UNCHANGED <<bitboard, zobrist_table, history, state, eliminated, call, nmoves>>
NextCalls ==
    \/ CallZobristNew
    \/ CallFromFen
    \/ CallLegalMoves
    \/ CallBoardMoves
    \/ CallSquare
    \/ CallMask
    \/ CallNeighbourMask
SpecCalls == InitCalls /\ [][NextCalls]_vars

\* ------------------------------------------------------------ properties
\* The step just taken was a move_piece call that returned Ok / returned Err /
\* panicked, and the action it was given.
MoveAccepted == nmoves' = nmoves + 1
MoveRejected == call' # NoAction /\ result' \in Errors
MovePanicked == call' # NoAction /\ result' = Panic
MoveCalled == MoveAccepted \/ MoveRejected \/ MovePanicked
Submitted == IF MoveAccepted THEN state'.action ELSE call'
\* the piece the action names stands on its from square
Present(action, bb) == SquareIndex(action.from) \in bb[action.piece]
SideOf(p) == IF p = Attacker THEN Attacker ELSE Defender
Occupied(bb) == bb[King] \cup bb[Defender] \cup bb[Attacker]
Corners == {Sq(0, 0), Sq(0, 8), Sq(8, 0), Sq(8, 8)}
Throne == Sq(4, 4)
BoardUnchanged == bitboard' = bitboard /\ state' = state /\ history' = history
\* the squares from f to t on their common row or column, f excluded, t included
Between(f, t) ==
    {s \in Squares :
        /\ s # f
        /\ \/ /\ f.row = t.row /\ s.row = f.row
              /\ \/ f.col <= s.col /\ s.col <= t.col
                 \/ t.col <= s.col /\ s.col <= f.col
           \/ /\ f.col = t.col /\ s.col = f.col
              /\ \/ f.row <= s.row /\ s.row <= t.row
                 \/ t.row <= s.row /\ s.row <= f.row}
Slides(f, t, bb) ==
    /\ f # t
    /\ f.row = t.row \/ f.col = t.col
    /\ \A s \in Between(f, t) : SquareIndex(s) \notin Occupied(bb)

\* C1: a move_piece call that returns a rule-violation failure leaves the three
\* piece masks, the hash, the side to move, the last action and the history as
\* they were before the call.
C1_RejectedMoveChangesNothing == [][MoveRejected => BoardUnchanged]_vars
\* an unreachable destination was rejected after a move had been recorded
C1_Witness ==
    call # NoAction /\ result = ErrMove /\ state.action # NoAction

\* C2: no square index is set in more than one of the King, Defender and
\* Attacker masks, after any sequence of accepted and rejected move_piece calls.
C2_NoSquareHoldsTwoPieces ==
    \A p \in Piece, q \in Piece : p # q => bitboard[p] \cap bitboard[q] = {}
\* after an accepted move, a move onto a square that a piece of another kind
\* holds was rejected
C2_Witness ==
    /\ call # NoAction /\ result = ErrMove /\ nmoves >= 1
    /\ Present(call, bitboard)
    /\ call.from.row = call.to.row \/ call.from.col = call.to.col
    /\ SquareIndex(call.to) \in Occupied(bitboard) \ bitboard[call.piece]

\* C3: the incrementally maintained hash equals the XOR of key[piece, square]
\* over all (piece, occupied square) pairs of the current bitboard: it does so
\* after construction and after every step that changes a mask or the hash
\* (the other steps leave both as they were).
C3_HashIsFullRecomputation ==
    /\ state.zobrist_hash = CalculateHash(bitboard, TableOf(zobrist_table))
    /\ [][(bitboard' # bitboard \/ state'.zobrist_hash # state.zobrist_hash)
            => state'.zobrist_hash = CalculateHash(bitboard', TableOf(zobrist_table'))]_vars
\* after two accepted moves the caller removed a captured piece
C3_Witness ==
    /\ nmoves >= 2
    /\ Cardinality(Occupied(bitboard)) < Cardinality(Occupied(BoardFromFen(STARTING_FEN, 1).bitboard))
    /\ Cardinality(bitboard[Attacker]) = 16
    /\ state.zobrist_hash # history[1].zobrist_hash

\* C4 as claimed: a successful move_piece flips the side to move.
C4_MoveFlipsTurn ==
    [][MoveAccepted => (state'.turn # state.turn /\ state'.turn \in {Attacker, Defender})]_vars
\* C4 as amended: a successful move_piece leaves the side to move as it was; only
\* toggle_turn changes it, to the opposite side (Attacker becomes Defender,
\* Defender becomes Attacker); it is always one of Attacker or Defender.
C4_OnlyToggleFlipsTurn ==
    [][/\ MoveAccepted => state'.turn = state.turn
       /\ state'.turn # state.turn => ToggleTurn
       /\ ToggleTurn =>
            /\ state.turn = Attacker => state'.turn = Defender
            /\ state.turn = Defender => state'.turn = Attacker
       /\ state'.turn \in {Attacker, Defender}]_vars
\* the turn was toggled after an accepted move, and differs from the initial one
C4_Witness ==
    nmoves >= 1 /\ state.action # NoAction /\ state.turn # history[1].turn

\* C5 as claimed: every accepted move_piece appends a copy of the new State, so
\* that after k accepted moves the history has k + 1 entries.
C5_MoveAppendsToHistory ==
    /\ history = <<state>>
    /\ [][/\ MoveAccepted => /\ history' = Append(history, state')
                             /\ Len(history') = nmoves' + 1
          /\ SubSeq(history', 1, Len(history)) = history]_vars
\* C5 as amended: the history starts as the single initial State; only save
\* changes it, and each save appends exactly one copy of the current State (so
\* its last entry then equals the current state); move_piece itself appends
\* nothing; no operation removes or changes an earlier entry.
C5_OnlySaveAppendsToHistory ==
    /\ history = <<state>>
    /\ [][/\ history' # history => Save
          /\ Save => /\ history' = Append(history, state)
                     /\ history'[Len(history')] = state'
          /\ MoveCalled => history' = history
          /\ Len(history') >= Len(history)
          /\ SubSeq(history', 1, Len(history)) = history]_vars
\* a State was saved after an accepted move
C5_Witness ==
    nmoves >= 1 /\ Len(history) = 2 /\ history[2].action # NoAction /\ history[2] = state

\* C6: move_piece for a piece that stands on from but does not belong to the
\* side to move returns a rule-violation failure and never succeeds.
C6_WrongSideIsRejected ==
    [][(MoveCalled /\ Present(Submitted, bitboard) /\ SideOf(Submitted.piece) # state.turn)
          => MoveRejected]_vars
\* the King was refused on the Attacker's turn
C6_Witness ==
    /\ call # NoAction /\ result = ErrTurn
    /\ call.piece = King /\ Present(call, bitboard) /\ state.turn = Attacker

\* C7: an action onto the throne (any piece) or onto a corner with a piece other
\* than the King is rejected and leaves the board unchanged; the King is not
\* rejected by the corner rule: on its side's turn it is accepted on a corner it
\* can slide to.
C7_ThroneAndCornerAreRejected ==
    [][/\ (/\ MoveCalled /\ Present(Submitted, bitboard)
           /\ \/ Submitted.to = Throne
              \/ Submitted.to \in Corners /\ Submitted.piece # King)
          => (MoveRejected /\ BoardUnchanged)
       /\ (/\ MoveCalled /\ Present(Submitted, bitboard)
           /\ Submitted.piece = King /\ Submitted.to \in Corners)
          => /\ result' # ErrCorner
             /\ (state.turn = Defender /\ Slides(Submitted.from, Submitted.to, bitboard))
                   => MoveAccepted]_vars
\* the King was refused on the throne, which it could slide to on its turn
C7_Witness ==
    /\ call # NoAction /\ result = ErrThrone /\ state.turn = Defender
    /\ call.piece = King /\ call.to = Throne /\ Slides(call.from, call.to, bitboard)

\* C8: move_piece succeeds only if the destination differs from the source, lies
\* on its row or column, and every square strictly between them and the
\* destination itself is unoccupied; any other destination fails.
C8_AcceptedMovesSlide ==
    [][/\ MoveAccepted => Slides(Submitted.from, Submitted.to, bitboard)
       /\ (MoveCalled /\ Present(Submitted, bitboard)
             /\ ~Slides(Submitted.from, Submitted.to, bitboard)) => MoveRejected
       /\ (MoveCalled /\ result' = ErrMove)
             => ~Slides(Submitted.from, Submitted.to, bitboard)]_vars
\* a piece slid three squares down its column
C8_Witness ==
    /\ nmoves >= 1 /\ result = Ok /\ state.action # NoAction
    /\ state.action.from.col = state.action.to.col
    /\ state.action.to.row = state.action.from.row + 3

\* C9: an action whose piece is not on its from square makes move_piece panic,
\* whatever the other checks would say; it returns neither Err nor Ok.
C9_AbsentPiecePanics ==
    [][MoveCalled => ((~Present(Submitted, bitboard)) <=> MovePanicked)]_vars
\* move_piece panicked for an absent piece of the wrong side aimed at the throne
\* from a square that another piece holds
C9_Witness ==
    /\ call # NoAction /\ result = Panic
    /\ call.to = Throne /\ SideOf(call.piece) # state.turn
    /\ SquareIndex(call.from) \in Occupied(bitboard)

\* the kinds of the pieces on square s
KindsAt(bb, s) == {p \in Piece : SquareIndex(s) \in bb[p]}
Directions == {<<-1, 0>>, <<1, 0>>, <<0, -1>>, <<0, 1>>}
OnBoard(r, c) == r \in 0 .. 8 /\ c \in 0 .. 8
\* the (kind, square) pairs sandwiched by a mover of kind m that landed on t
Sandwiched(bb, m, t) ==
    {<<k, s>> \in Piece \X Squares :
        /\ k \in KindsAt(bb, s)
        /\ SideOf(k) # SideOf(m)
        /\ \E d \in Directions :
              /\ s.row = t.row + d[1] /\ s.col = t.col + d[2]
              /\ OnBoard(t.row + 2 * d[1], t.col + 2 * d[2])
              /\ \E a \in KindsAt(bb, Sq(t.row + 2 * d[1], t.col + 2 * d[2])) :
                    SideOf(a) = SideOf(m)}
SeqRange(q) == {q[i] : i \in 1 .. Len(q)}

\* C10: the captured-pieces sequence of the last accepted move yields exactly the
\* (kind, square) pairs whose square is next to the mover's destination, holds a
\* piece of the other side of that kind, and has an ally of the mover right
\* behind it; off-board neighbours yield nothing; no pair is yielded twice.
C10_EliminatedAreTheSandwiched ==
    eliminated # <<>> =>
        /\ SeqRange(eliminated[1]) = Sandwiched(bitboard, state.action.piece, state.action.to)
        /\ Len(eliminated[1]) = Cardinality(SeqRange(eliminated[1]))
\* the iterator reported the capture of a King
C10_Witness ==
    /\ eliminated # <<>> /\ eliminated[1] # <<>>
    /\ eliminated[1][1][1] = King

\* C11: eliminated_pieces_iter on a board on which no move_piece has succeeded
\* panics and yields no sequence: no sequence exists before the first accepted
\* move, and a call made then ends in the panic.
C11_IterBeforeMovePanics ==
    /\ eliminated = <<>>
    /\ [][nmoves' = 0 =>
            /\ eliminated' = <<>>
            /\ EliminatedPiecesIter => (result' = Panic /\ BoardUnchanged)]_vars
\* the iterator was asked for on a fresh board, and the call panicked
C11_Witness ==
    /\ nmoves = 0 /\ state.action = NoAction /\ call = NoAction
    /\ result = Panic /\ eliminated = <<>>

\* the exact reverse of an action
Reverse(action) == Act(action.piece, action.to, action.from)
\* C12: when an accepted action is followed by its accepted exact reverse, the
\* hash after the second move equals the hash before the first, and the hash in
\* between differs from it.  Stated for the first two moves on a board, with no
\* captured piece removed in between: the hash before the first move is then the
\* one of the initial State, history[1].
C12_ReverseRestoresHash ==
    [][(/\ MoveAccepted /\ nmoves = 1 /\ eliminated = <<>>
        /\ Submitted = Reverse(state.action))
          => /\ state'.zobrist_hash = history[1].zobrist_hash
             /\ state.zobrist_hash # history[1].zobrist_hash]_vars

\* C13: a table that ZobristTable::new returned holds no value twice.
C13_NoDuplicateKeys ==
    (call.fn = FnZobristNew /\ result = Returned(Ok)) =>
        LET table == ZobristTableNew(zobrist_table)
        IN Cardinality({table[i] : i \in DOMAIN table}) = TABLE_LENGTH

\* a from_fen call returned; the layout it was given
FromFenReturned == call.fn = FnFromFen /\ result # Pending
IsStartingFen == FenString(call) = STARTING_FEN
\* squares by (row, col) as a mask
MaskOf(squares) == {SquareIndex(s) : s \in squares}
\* C14 as claimed: decoding the starting layout yields 8 Attackers, 8 Defenders
\* around the centre, the King on (4,4) and the Attacker to move.
C14_StartingLayoutHasEightAttackers ==
    (FromFenReturned /\ IsStartingFen) =>
        /\ result = Returned("ok")
        /\ Cardinality(bitboard[Attacker]) = 8
        /\ Cardinality(bitboard[Defender]) = 8
        /\ bitboard[King] = MaskOf({Sq(4, 4)})
        /\ state.turn = Attacker
\* C14 as amended: decoding the starting layout yields 16 Attackers (four on
\* each edge: the three middle squares and the square in front of them), the 8
\* Defenders on the two squares next to the centre in each direction, the King
\* on (4,4) and the Attacker to move.
C14_StartingLayoutDecodes ==
    (FromFenReturned /\ IsStartingFen) =>
        /\ result = Returned("ok")
        /\ bitboard[Attacker] =
              MaskOf({Sq(0, 3), Sq(0, 4), Sq(0, 5), Sq(1, 4), Sq(8, 3), Sq(8, 4), Sq(8, 5),
                      Sq(7, 4), Sq(3, 0), Sq(4, 0), Sq(5, 0), Sq(4, 1), Sq(3, 8), Sq(4, 8),
                      Sq(5, 8), Sq(4, 7)})
        /\ Cardinality(bitboard[Attacker]) = 16
        /\ bitboard[Defender] =
              MaskOf({Sq(2, 4), Sq(3, 4), Sq(5, 4), Sq(6, 4), Sq(4, 2), Sq(4, 3), Sq(4, 5),
                      Sq(4, 6)})
        /\ Cardinality(bitboard[Defender]) = 8
        /\ bitboard[King] = MaskOf({Sq(4, 4)})
        /\ state.turn = Attacker
        /\ state.action = NoAction
        /\ history = <<state>>
\* the starting layout was decoded
C14_Witness ==
    /\ FromFenReturned /\ IsStartingFen /\ result = Returned("ok")
    /\ Cardinality(Occupied(bitboard)) = 25

\* the pieces and gaps of a row, summed
RECURSIVE RowWidth(_)
RowWidth(row) ==
    IF row = <<>> THEN 0
    ELSE (IF IsDigit(row[1]) THEN ToDigit(row[1])
          ELSE IF row[1] \in {"A", "D", "K"} THEN 1 ELSE 0) + RowWidth(Tail(row))
\* some row is not 9 wide, or the side to move is missing or is neither B nor W
Malformed(c) ==
    \/ \E k \in 1 .. Len(c.rows) : RowWidth(c.rows[k]) # BOARD_LENGTH
    \/ c.tail \notin {<<" ", "B">>, <<" ", "W">>}
\* C15: from_fen fails with a typed failure, without a panic and without a
\* board, on every layout with a row that is not exactly 9 wide or with a
\* missing or unknown side to move.
C15_MalformedLayoutsFail ==
    (FromFenReturned /\ Malformed(call)) => result = Returned("err")

SlideSet(s, b) ==
    {SquareIndex(t) : t \in {u \in Squares :
        /\ u # s
        /\ u.row = s.row \/ u.col = s.col
        /\ \A v \in Between(s, u) : SquareIndex(v) \notin b}}
\* C17: legal_moves(s, b) is the set of the squares t on the row or the column
\* of s, other than s, with no square from the one next to s up to t in b; it
\* holds neither s nor a blocker and lies within moves(s); with no blockers it is
\* moves(s) and has 16 squares; from (4,4) with a blocker on row 6 of column 4
\* it has 13 squares.
C17_LegalMovesAreTheSlides ==
    (call.fn = FnLegalMoves /\ result # Pending) =>
        /\ result.value = SlideSet(call.square, call.blockers)
        /\ SquareIndex(call.square) \notin result.value
        /\ result.value \cap call.blockers = {}
        /\ result.value \subseteq BitboardMoves(call.square)
        /\ call.blockers = {} =>
              (result.value = BitboardMoves(call.square) /\ Cardinality(result.value) = 16)
        /\ (call.square = Sq(4, 4) /\ call.blockers = MaskOf({Sq(6, 4)})) =>
              Cardinality(result.value) = 13
\* legal_moves returned 13 squares from the centre with the blocker two rows down
C17_Witness ==
    /\ call.fn = FnLegalMoves /\ call.square = Sq(4, 4)
    /\ call.blockers = MaskOf({Sq(6, 4)})
    /\ result # Pending /\ Cardinality(result.value) = 13

\* a Square constructor returned; the row, column and index it was given
SquareReturned ==
    call.fn \in {FnSquareNew, FnSquareFromPair, FnSquareFromIndex} /\ result # Pending
GivenRow == IF call.fn = FnSquareFromIndex THEN call.index \div 9 ELSE call.row
GivenCol == IF call.fn = FnSquareFromIndex THEN call.index % 9 ELSE call.col
GivenInRange ==
    IF call.fn = FnSquareFromIndex THEN call.index \in 0 .. 80
    ELSE call.row \in 0 .. 8 /\ call.col \in 0 .. 8
\* C18: a square is built from a row and a column in [0,9), or from an index in
\* [0,81), with index = row * 9 + col both ways, the pair and the index
\* conversions agree, the mask is the single bit at the index; every
\* construction from a row, a column or an index outside those ranges fails.
C18_SquareConversionIsABijection ==
    SquareReturned =>
        IF GivenInRange
        THEN /\ result.value.ok
             /\ result.value.sq = Sq(GivenRow, GivenCol)
             /\ result.value.index = GivenRow * 9 + GivenCol
             /\ result.value.index \in 0 .. 80
             /\ result.value.mask = {result.value.index}
             /\ SquareTryFromIndex(result.value.index).sq = result.value.sq
             /\ SquareTryFromPair(GivenCol, GivenRow).sq = result.value.sq
        ELSE ~result.value.ok

\* a call returned a mask: the mask
MasksReturned ==
    IF result = Pending THEN {}
    ELSE IF call.fn \in {FnMaskNot, FnMaskOr, FnMaskAnd, FnLegalMoves, FnBoardMoves}
    THEN {result.value}
    ELSE IF call.fn \in {FnSquareFromPair, FnSquareFromIndex} /\ result.value.ok
    THEN {result.value.mask, BitboardMoves(result.value.sq)}
    ELSE IF call.fn = FnFromFen /\ result.value = "ok"
    THEN {bitboard[p] : p \in Piece}
    ELSE {}
\* C19: every mask that the engine produces (by |, &, !, Square::mask,
\* Bitboard::moves, legal_moves, Board::moves, and the piece masks of a decoded
\* board) has no bit at position 81 or above.
C19_MasksStayWithinTheBoard ==
    \A m \in MasksReturned : m \subseteq 0 .. (TOTAL_SQUARES - 1)

\* C20: an accepted move_piece(piece, from, to) changes the position only by
\* clearing from and setting to in the mask of piece: from held the piece and to
\* was empty, the other two masks are unchanged, the number of pieces of each
\* kind is unchanged (no captured piece is removed), and state.action is the
\* action applied.
C20_MoveOnlyMovesThePiece ==
    [][MoveAccepted =>
          /\ state'.action # NoAction
          /\ LET a == state'.action
             IN /\ SquareIndex(a.from) \in bitboard[a.piece]
                /\ SquareIndex(a.to) \notin Occupied(bitboard)
                /\ bitboard'[a.piece] =
                      (bitboard[a.piece] \ {SquareIndex(a.from)}) \cup {SquareIndex(a.to)}
                /\ \A p \in Piece \ {a.piece} : bitboard'[p] = bitboard[p]
                /\ \A p \in Piece : Cardinality(bitboard'[p]) = Cardinality(bitboard[p])
                /\ Occupied(bitboard') # Occupied(bitboard)
                /\ state'.turn = state.turn /\ history' = history]_vars
\* a move closed a sandwich, and the piece it captured still stands on its square
C20_Witness ==
    /\ nmoves >= 1 /\ eliminated # <<>> /\ eliminated[1] # <<>>
    /\ Len(eliminated[1]) = Cardinality(Sandwiched(bitboard, state.action.piece, state.action.to))
    /\ SquareIndex(eliminated[1][1][2]) \in bitboard[eliminated[1][1][1]]
    /\ SquareIndex(state.action.to) \in bitboard[state.action.piece]

\* C21: for every square s, adjacent_mask(s) is exactly the set of squares of
\* the board one step from s along its row or its column, and
\* interjacent_mask(s) exactly the set of squares of the board two steps from
\* s along its row or its column; steps that leave the board are left out,
\* so that a corner has two squares in each mask and the centre four, and
\* neither mask holds s itself.
AtDistance(s, d) ==
    {SquareIndex(t) : t \in {u \in Squares :
        \/ u.row = s.row /\ (u.col - s.col = d \/ s.col - u.col = d)
        \/ u.col = s.col /\ (u.row - s.row = d \/ s.row - u.row = d)}}
NeighbourMaskReturned ==
    /\ call.fn \in {FnAdjacentMask, FnInterjacentMask}
    /\ result # Pending
C21_NeighbourMasksAreTheOrthogonalSquares ==
    NeighbourMaskReturned =>
        LET s == call.square
            d == IF call.fn = FnAdjacentMask THEN 1 ELSE 2
        IN /\ result = Returned(AtDistance(s, d))
           /\ SquareIndex(s) \notin result.value
           /\ result.value \subseteq 0 .. (TOTAL_SQUARES - 1)
           /\ s \in Corners => Cardinality(result.value) = 2
           /\ s = Throne => Cardinality(result.value) = 4
C21_Witness ==
    /\ NeighbourMaskReturned
    /\ call.fn = FnInterjacentMask
    /\ call.square = Sq(0, BOARD_LENGTH - 1)
    /\ result.value = {SquareIndex(Sq(0, BOARD_LENGTH - 3)), SquareIndex(Sq(2, BOARD_LENGTH - 1))}

\* C22: on a board built from the standard starting layout, after any sequence
\* of accepted move_piece calls no Attacker and no Defender stands on a corner
\* square, and the throne is either empty or holds the King, which then has
\* stood there in every state since the board was built: an accepted move of
\* the King leaves the throne empty, and an empty throne stays empty.
FromStartingLayout == history[1] = BoardFromFen(STARTING_FEN, zobrist_table).history[1]
CornersFreeOfMen(bb) ==
    \A s \in Corners : SquareIndex(s) \notin bb[Attacker] \cup bb[Defender]
ThroneHoldsKingOrNothing(bb) ==
    SquareIndex(Throne) \in Occupied(bb) => SquareIndex(Throne) \in bb[King]
KingReachedCorner ==
    state.action # NoAction /\ state.action.piece = King /\ state.action.to \in Corners
FarNeighbourOffBoard ==
    /\ eliminated = <<<<>>>> /\ state.action.to.row = 1
    /\ KindsAt(bitboard, Sq(0, state.action.to.col)) # {}
    /\ \A k \in KindsAt(bitboard, Sq(0, state.action.to.col)) :
          SideOf(k) # SideOf(state.action.piece)
DefenderCaptured ==
    eliminated # <<>> /\ eliminated[1] # <<>> /\ eliminated[1][1][1] = Defender
AttackerCaptured ==
    eliminated # <<>> /\ eliminated[1] # <<>> /\ eliminated[1][1][1] = Attacker

====
